---- MODULE Spec2Model ----
(***************************************************************************)
(* tensorflow_datasets/scripts/cli/croissant.py: the `tfds build_croissant` *)
(* subcommand.  One run is either a command-line invocation (argparse, the  *)
(* registered subparser_fn, prepare_croissant_builder) or a direct call of  *)
(* prepare_croissant_builder.                                               *)
(*                                                                         *)
(* Python values are tagged records.  A str is the sequence of its lexical  *)
(* tokens: [t |-> "str", v |-> <<"{", "}">>] is the text '{}', and          *)
(* [t |-> "str", v |-> <<>>] is the empty string.                           *)
(***************************************************************************)
EXTENDS Naturals, Sequences, FiniteSets

VARIABLES
  argv,            \* the command line given to the subcommand (None_ for a direct call)
  args,            \* the argparse Namespace (None_ before parsing)
  call,            \* the arguments prepare_croissant_builder was called with
  record_sets,     \* local of prepare_croissant_builder
  mapping,         \* local of prepare_croissant_builder
  ctor_args,       \* keyword arguments of the CroissantBuilder(...) call
  builder,         \* local `builder`: the constructed CroissantBuilder
  collab_raised,   \* the error the collaborator raised, if it did
  exc,             \* the error the run ended with
  trace,           \* the steps executed so far, in order
  pc               \* position of the run

vars == <<argv, args, call, record_sets, mapping, ctor_args, builder,
          collab_raised, exc, trace, pc>>

----------------------------------------------------------------------------
(* Bounds of the model *)

MaxTextLen == 3
MaxPairs == 2
MaxPathLen == 3
MaxRecordSets == 2

----------------------------------------------------------------------------
(* Python values *)

None_ == [t |-> "none"]
PyStr(s) == [t |-> "str", v |-> s]
PyList(s) == [t |-> "list", v |-> s]
PyDict(s) == [t |-> "dict", v |-> s]
PyInt(n) == [t |-> "int", v |-> n]
PyFloat(x) == [t |-> "float", v |-> x]

\* bool(x) for the values the adapter tests: None, str, list.
Truthy(x) ==
  CASE x.t = "none" -> FALSE
    [] x.t = "str" -> x.v # <<>>
    [] x.t = "list" -> x.v # <<>>
    [] x.t = "dict" -> x.v # <<>>
    [] OTHER -> TRUE

SeqsUpTo(S, n) == UNION {[1..k -> S] : k \in 0..n}

----------------------------------------------------------------------------
(* json.loads on a token sequence *)

StrLits == {"\"a.csv\"", "\"/home/u/a.csv\""}

JsonTokens == {"{", "}", "[", "]", ":", ","} \cup StrLits \cup {"1", "null", "NaN", "not"}

\* The Python str a JSON string literal decodes to.
StrValue(tok) ==
  CASE tok = "\"a.csv\"" -> "a.csv"
    [] tok = "\"/home/u/a.csv\"" -> "/home/u/a.csv"

Parsed(val, end) == [ok |-> TRUE, val |-> val, end |-> end]
ParseFail(end) == [ok |-> FALSE, val |-> None_, end |-> end]

\* dict(pairs): a repeated key keeps its first position and takes the last value.
RECURSIVE DictSet(_, _, _)
DictSet(pairs, k, val) ==
  IF pairs = <<>> THEN << <<k, val>> >>
  ELSE IF Head(pairs)[1] = k THEN << <<k, val>> >> \o Tail(pairs)
  ELSE << Head(pairs) >> \o DictSet(Tail(pairs), k, val)

RECURSIVE ScanOnce(_, _), JSONObjectMembers(_, _, _), JSONArrayItems(_, _, _)

\* After '{' and at least one member: expects a key at position i.
JSONObjectMembers(s, i, pairs) ==
  IF i > Len(s) \/ (i <= Len(s) /\ s[i] \notin StrLits) THEN ParseFail(i)
  ELSE IF i + 1 > Len(s) \/ (i + 1 <= Len(s) /\ s[i + 1] # ":") THEN ParseFail(i + 1)
  ELSE LET r == ScanOnce(s, i + 2) IN
    IF ~r.ok THEN r
    ELSE LET pairs2 == DictSet(pairs, StrValue(s[i]), r.val) IN
      IF r.end > Len(s) THEN ParseFail(r.end)
      ELSE IF s[r.end] = "}" THEN Parsed(PyDict(pairs2), r.end + 1)
      ELSE IF s[r.end] = "," THEN JSONObjectMembers(s, r.end + 1, pairs2)
      ELSE ParseFail(r.end)

\* After '[' and at least one item position: expects a value at position i.
JSONArrayItems(s, i, items) ==
  LET r == ScanOnce(s, i) IN
    IF ~r.ok THEN r
    ELSE LET items2 == Append(items, r.val) IN
      IF r.end > Len(s) THEN ParseFail(r.end)
      ELSE IF s[r.end] = "]" THEN Parsed(PyList(items2), r.end + 1)
      ELSE IF s[r.end] = "," THEN JSONArrayItems(s, r.end + 1, items2)
      ELSE ParseFail(r.end)

\* json.scanner scan_once: one JSON value starting at position i.
ScanOnce(s, i) ==
  IF i > Len(s) THEN ParseFail(i)
  ELSE CASE s[i] \in StrLits -> Parsed(PyStr(<<StrValue(s[i])>>), i + 1)
         [] s[i] = "{" ->
              IF i + 1 <= Len(s) /\ s[i + 1] = "}"
              THEN Parsed(PyDict(<<>>), i + 2)
              ELSE JSONObjectMembers(s, i + 1, <<>>)
         [] s[i] = "[" ->
              IF i + 1 <= Len(s) /\ s[i + 1] = "]"
              THEN Parsed(PyList(<<>>), i + 2)
              ELSE JSONArrayItems(s, i + 1, <<>>)
         [] s[i] = "null" -> Parsed(None_, i + 1)
         [] s[i] = "1" -> Parsed(PyInt(1), i + 1)
         [] s[i] = "NaN" -> Parsed(PyFloat("nan"), i + 1)
         [] OTHER -> ParseFail(i)

\* json.loads(s): one value and nothing after it, else JSONDecodeError.
JsonLoads(s) ==
  LET r == ScanOnce(s, 1) IN
    IF r.ok /\ r.end = Len(s) + 1 THEN r ELSE ParseFail(r.end)

----------------------------------------------------------------------------
(* epath.Path on a path text (tokens "/", ".", and names) *)

PathTokens == {"/", ".", "tmp", "out"}

\* text.split("/"): the segments between the separators.
RECURSIVE Segments(_, _, _)
Segments(s, cur, acc) ==
  IF s = <<>> THEN Append(acc, cur)
  ELSE IF Head(s) = "/" THEN Segments(Tail(s), <<>>, Append(acc, cur))
  ELSE Segments(Tail(s), Append(cur, Head(s)), acc)

IsNamedSegment(seg) == seg # <<>> /\ seg # <<".">>

\* The root of a POSIX path: "//" for exactly two leading slashes, else "/" or none.
PathRoot(s) ==
  IF Len(s) >= 1 /\ s[1] = "/"
  THEN IF Len(s) >= 2 /\ s[2] = "/" /\ ~(Len(s) >= 3 /\ s[3] = "/")
       THEN <<"/", "/">>
       ELSE <<"/">>
  ELSE <<>>

\* epath.Path(text): empty and "." segments are dropped, so is a trailing slash.
epath_Path(text) ==
  [t |-> "path", root |-> PathRoot(text.v),
   parts |-> SelectSeq(Segments(text.v, <<>>, <<>>), IsNamedSegment)]

RECURSIVE JoinParts(_)
JoinParts(parts) ==
  IF parts = <<>> THEN <<>>
  ELSE IF Len(parts) = 1 THEN parts[1]
  ELSE parts[1] \o <<"/">> \o JoinParts(Tail(parts))

\* str(path)
PathStr(p) ==
  IF p.root = <<>> /\ p.parts = <<>> THEN PyStr(<<".">>)
  ELSE PyStr(p.root \o JoinParts(p.parts))

----------------------------------------------------------------------------
(* The values a run is started with *)

\* The values of file_adapters.FileFormat.
FileFormat == {"tfrecord", "riegeli", "array_record", "parquet"}

JsonldArgs == {PyStr(<<"/tmp/d.json">>), PyStr(<<"/tmp/e.json">>)}
FormatArgs == {PyStr(<<f>>) : f \in FileFormat \cup {"csv"}}
RecordSetIds == {PyStr(<<"record1">>), PyStr(<<"record2">>)}
RecordSetArgs == {PyList(s) : s \in SeqsUpTo(RecordSetIds, MaxRecordSets)}
OutDirTexts == {PyStr(s) : s \in SeqsUpTo(PathTokens, MaxPathLen)}

StrValues == {"a.csv", "/home/u/a.csv"}

\* The JSON string literal of a Python str.
Quote(str) ==
  CASE str = "a.csv" -> "\"a.csv\""
    [] str = "/home/u/a.csv" -> "\"/home/u/a.csv\""

\* JSON texts used as the values of an object's members.
ValueTexts ==
  {<<Quote(v)>> : v \in StrValues}
    \cup {<<"1">>, <<"null">>, <<"{", "}">>}
    \cup {<<"[", Quote(v), "]">> : v \in StrValues}
    \cup {<<"{", Quote("a.csv"), ":", Quote(v), "}">> : v \in StrValues}

\* The JSON text of an object with the members ps = <<key, value text>>, in order.
RECURSIVE EncodeMembers(_)
EncodeMembers(ps) ==
  IF ps = <<>> THEN <<>>
  ELSE <<Quote(ps[1][1]), ":">> \o ps[1][2]
       \o (IF Len(ps) = 1 THEN <<>> ELSE <<",">> \o EncodeMembers(Tail(ps)))

EncodeObject(ps) == <<"{">> \o EncodeMembers(ps) \o <<"}">>

ObjectTexts ==
  {PyStr(EncodeObject(ps)) : ps \in SeqsUpTo(StrValues \X ValueTexts, MaxPairs)}

MappingTexts == {PyStr(s) : s \in SeqsUpTo(JsonTokens, MaxTextLen)} \cup ObjectTexts

NotValidText == PyStr(<<"{", "not", "not", "}">>)
FlatText == PyStr(<<"{", "\"a.csv\"", ":", "\"/home/u/a.csv\"", "}">>)
FewMappings == {None_, PyStr(<<>>), NotValidText, FlatText}

DefaultOutDir == PyStr(<<"/", "tmp", "/", "out">>)

DefaultArgv ==
  [t |-> "argv", jsonld |-> PyStr(<<"/tmp/d.json">>),
   file_format |-> PyStr(<<"array_record">>), record_sets |-> None_,
   out_dir |-> DefaultOutDir, mapping |-> None_]

\* Command lines: each flag given or not; --record_sets with zero or more values.
Argvs ==
  {[DefaultArgv EXCEPT !.out_dir = o] : o \in OutDirTexts}
    \cup [t : {"argv"}, jsonld : JsonldArgs \cup {None_},
          file_format : FormatArgs \cup {None_},
          record_sets : RecordSetArgs \cup {None_},
          out_dir : {DefaultOutDir, None_}, mapping : FewMappings]

DefaultCall ==
  [t |-> "call", jsonld |-> PyStr(<<"/tmp/d.json">>), record_sets |-> PyList(<<>>),
   out_file_format |-> PyStr(<<"array_record">>), out_dir |-> DefaultOutDir,
   mapping |-> None_]

\* Direct calls of prepare_croissant_builder.
Calls ==
  {[DefaultCall EXCEPT !.mapping = m] : m \in MappingTexts \cup {None_}}
    \cup [t : {"call"}, jsonld : JsonldArgs, record_sets : RecordSetArgs \cup {None_},
          out_file_format : FormatArgs,
          out_dir : {DefaultOutDir, epath_Path(DefaultOutDir)}, mapping : FewMappings]

----------------------------------------------------------------------------
(* add_parser_arguments / register_subparser *)

\* --out_dir declared without required=True.
RequiredFlags_OutDirOptional == {"jsonld", "file_format"}

\* The flags declared with required=True.
RequiredFlags == {"jsonld", "file_format", "out_dir"}

\* choices= of --file_format.
FileFormatChoices == {PyStr(<<f>>) : f \in FileFormat}

\* --file_format declared without choices=.
ParseArgs_NoChoices(a) ==
  IF \E f \in {"jsonld", "file_format", "out_dir"} : a[f] = None_
  THEN [t |-> "SystemExit", code |-> 2]
  ELSE [t |-> "Namespace", jsonld |-> a.jsonld, file_format |-> a.file_format,
        record_sets |-> a.record_sets,
        out_dir |-> IF a.out_dir = None_ THEN None_ ELSE epath_Path(a.out_dir),
        mapping |-> a.mapping]

\* parser.parse_args: the Namespace, or SystemExit(2) on a usage error.
ParseArgs(a) ==
  IF (\E f \in RequiredFlags : a[f] = None_)
     \/ (a.file_format # None_ /\ a.file_format \notin FileFormatChoices)
  THEN [t |-> "SystemExit", code |-> 2]
  ELSE [t |-> "Namespace", jsonld |-> a.jsonld, file_format |-> a.file_format,
        record_sets |-> a.record_sets,
        out_dir |-> IF a.out_dir = None_ THEN None_ ELSE epath_Path(a.out_dir),
        mapping |-> a.mapping]

\* subparser_fn with jsonld and out_dir passed in each other's place.
SubparserFnCall_Swapped(ns) ==
  [t |-> "call", jsonld |-> ns.out_dir, record_sets |-> ns.record_sets,
   out_file_format |-> ns.file_format, out_dir |-> ns.jsonld,
   mapping |-> ns.mapping]

\* The keyword arguments the registered subparser_fn passes on.
SubparserFnCall(ns) ==
  [t |-> "call", jsonld |-> ns.jsonld, record_sets |-> ns.record_sets,
   out_file_format |-> ns.file_format, out_dir |-> ns.out_dir,
   mapping |-> ns.mapping]

----------------------------------------------------------------------------
(* prepare_croissant_builder *)

\* Errors the collaborator may raise.
CollabErrors ==
  {[t |-> "exc", type |-> e, msg |-> <<"collaborator">>, cause |-> "none"] :
     e \in {"FileNotFoundError", "JSONDecodeError", "ValueError"}}

JSONDecodeError ==
  [t |-> "exc", type |-> "JSONDecodeError", msg |-> <<"json">>, cause |-> "none"]

\* format(x): a str as it is, any other value by its repr.
PyFormat(x) == IF x.t = "str" THEN x.v ELSE <<"repr", x.t>>

\* f'Error parsing mapping parameter: {mapping}'
ErrorMessage(m) == <<"Error parsing mapping parameter: ">> \o PyFormat(m)

\* The try block stretched over the construction and the prepare call.
InTry_Wide(line) == line \in 124..134

\* The lines inside the try block.
InTry(line) == line = 124

\* What an error raised at `line` leaves the function as.
Raised(line, e, m) ==
  IF InTry(line) /\ e.type = "JSONDecodeError"
  THEN [t |-> "exc", type |-> "ValueError", msg |-> ErrorMessage(m),
        cause |-> e.type]
  ELSE e

\* `if record_sets is None` in place of `if not record_sets`.
NormalisedRecordSets_IsNone(rs) == IF rs = None_ THEN None_ ELSE rs

\* Lines 119-120.
NormalisedRecordSets(rs) == IF ~Truthy(rs) THEN None_ ELSE rs

\* The test of line 122 never taken.
MappingIsParsed_Never(m) == FALSE

\* Line 122: whether the mapping is parsed at all.
MappingIsParsed(m) == Truthy(m)

\* json.loads(mapping) with its result not assigned.
ParsedMapping_KeepText(m, r) == m

\* Line 124: the value assigned to `mapping` when json.loads returns.
ParsedMapping(m, r) == r.val

\* Lines 127-133.
BuilderKwargs ==
  [jsonld |-> call.jsonld, record_set_ids |-> record_sets,
   file_format |-> call.out_file_format, data_dir |-> call.out_dir,
   mapping |-> mapping]

Init ==
  /\ \/ /\ pc = "argv"
        /\ argv \in Argvs
        /\ call = None_
     \/ /\ pc = "l119"
        /\ argv = None_
        /\ call \in Calls
  /\ args = None_
  /\ record_sets = IF call = None_ THEN None_ ELSE call.record_sets
  /\ mapping = IF call = None_ THEN None_ ELSE call.mapping
  /\ ctor_args = None_
  /\ builder = None_
  /\ collab_raised = None_
  /\ exc = None_
  /\ trace = <<>>

\* argparse parses the command line.
parse_args ==
  /\ pc = "argv"
  /\ LET ns == ParseArgs(argv) IN
       IF ns.t = "SystemExit"
       THEN /\ pc' = "exit"
            /\ exc' = ns
            /\ args' = args
       ELSE /\ pc' = "args"
            /\ args' = ns
            /\ exc' = exc
  /\ trace' = Append(trace, "parse_args")
  /\ UNCHANGED <<argv, call, record_sets, mapping, ctor_args, builder, collab_raised>>

\* The registered subparser_fn calls prepare_croissant_builder.
subparser_fn ==
  /\ pc = "args"
  /\ call' = SubparserFnCall(args)
  /\ record_sets' = call'.record_sets
  /\ mapping' = call'.mapping
  /\ pc' = "l119"
  /\ trace' = Append(trace, "subparser_fn")
  /\ UNCHANGED <<argv, args, ctor_args, builder, collab_raised, exc>>

\* Lines 119-120: if not record_sets: record_sets = None
normalise_record_sets ==
  /\ pc = "l119"
  /\ record_sets' = NormalisedRecordSets(record_sets)
  /\ pc' = "l122"
  /\ trace' = Append(trace, "normalise_record_sets")
  /\ UNCHANGED <<argv, args, call, mapping, ctor_args, builder, collab_raised, exc>>

\* Lines 122-126: parse the mapping text.
parse_mapping ==
  /\ pc = "l122"
  /\ IF MappingIsParsed(mapping)
     THEN LET r == JsonLoads(mapping.v) IN
            IF r.ok
            THEN /\ mapping' = ParsedMapping(mapping, r)
                 /\ pc' = "l127"
                 /\ exc' = exc
            ELSE /\ exc' = Raised(124, JSONDecodeError, mapping)
                 /\ pc' = "raised"
                 /\ mapping' = mapping
     ELSE /\ pc' = "l127"
          /\ UNCHANGED <<mapping, exc>>
  /\ trace' = Append(trace, "parse_mapping")
  /\ UNCHANGED <<argv, args, call, record_sets, ctor_args, builder, collab_raised>>

\* Lines 127-133: CroissantBuilder(...) returns the builder or raises.
construct ==
  /\ pc = "l127"
  /\ ctor_args' = BuilderKwargs
  /\ trace' = Append(trace, "CroissantBuilder")
  /\ \/ /\ builder' = BuilderKwargs
        /\ pc' = "l134"
        /\ UNCHANGED <<collab_raised, exc>>
     \/ \E e \in CollabErrors :
          /\ collab_raised' = e
          /\ exc' = Raised(127, e, mapping)
          /\ pc' = "raised"
          /\ builder' = builder
  /\ UNCHANGED <<argv, args, call, record_sets, mapping>>

\* Line 134 with a failed prepare call made again.
download_and_prepare_retry ==
  /\ pc = "l134"
  /\ trace' = Append(trace, "download_and_prepare")
  /\ \/ /\ pc' = "l135"
        /\ UNCHANGED <<collab_raised, exc>>
     \/ \E e \in CollabErrors :
          /\ collab_raised' = e
          /\ exc' = IF collab_raised = None_ THEN exc ELSE Raised(134, e, mapping)
          /\ pc' = IF collab_raised = None_ THEN "l134" ELSE "raised"
  /\ UNCHANGED <<argv, args, call, record_sets, mapping, ctor_args, builder>>

\* Line 134: builder.download_and_prepare() returns or raises.
download_and_prepare ==
  /\ pc = "l134"
  /\ trace' = Append(trace, "download_and_prepare")
  /\ \/ /\ pc' = "l135"
        /\ UNCHANGED <<collab_raised, exc>>
     \/ \E e \in CollabErrors :
          /\ collab_raised' = e
          /\ exc' = Raised(134, e, mapping)
          /\ pc' = "raised"
  /\ UNCHANGED <<argv, args, call, record_sets, mapping, ctor_args, builder>>

\* Line 135: return
return ==
  /\ pc = "l135"
  /\ pc' = "returned"
  /\ trace' = Append(trace, "return")
  /\ UNCHANGED <<argv, args, call, record_sets, mapping, ctor_args, builder,
                 collab_raised, exc>>

Next ==
  \/ parse_args
  \/ subparser_fn
  \/ normalise_record_sets
  \/ parse_mapping
  \/ construct
  \/ download_and_prepare
  \/ return

Spec == Init /\ [][Next]_vars

----------------------------------------------------------------------------
(* Properties *)

Count(step) == Cardinality({i \in DOMAIN trace : trace[i] = step})
ctor_calls == Count("CroissantBuilder")
prepare_calls == Count("download_and_prepare")

Called == call.t = "call"
FromCommandLine == argv.t = "argv"
Ended == pc \in {"returned", "raised"}

\* The run was ended by an error of the adapter itself.
AdapterRaised == pc = "raised" /\ collab_raised = None_

\* Equality of Python values of the same type.
PyEq(a, b) == a.t = b.t /\ a = b

\* text occurs in msg as a contiguous piece.
Contains(msg, text) ==
  \E i \in 0..Len(msg) :
    i + Len(text) <= Len(msg) /\ SubSeq(msg, i + 1, i + Len(text)) = text

MappingTextGiven == Called /\ call.mapping.t = "str"
MappingTextParses == MappingTextGiven /\ JsonLoads(call.mapping.v).ok

\* C1: a call whose mapping text is not valid JSON ends in a ValueError whose
\* message contains that text, and neither CroissantBuilder nor
\* download_and_prepare is called in that run.
C1_InvalidMappingRaisesValueError ==
  (MappingTextGiven /\ ~MappingTextParses) =>
    /\ ctor_calls = 0
    /\ prepare_calls = 0
    /\ pc \notin {"l127", "l134", "l135", "returned"}
    /\ pc = "raised" =>
         /\ exc.type = "ValueError"
         /\ Contains(exc.msg, call.mapping.v)

\* C2: when record_sets is None or an empty sequence, CroissantBuilder is
\* called with record_set_ids = None, never with an empty sequence.
C2_EmptyRecordSetsBecomeNone ==
  (Called /\ ctor_calls > 0 /\ call.record_sets \in {None_, PyList(<<>>)}) =>
    ctor_args.record_set_ids = None_

C2_Witness ==
  /\ Called
  /\ ctor_calls > 0
  /\ call.record_sets = PyList(<<>>)
  /\ ctor_args.record_set_ids = None_

\* A flat mapping from str to str.
IsFlatStrDict(x) ==
  /\ x.t = "dict"
  /\ \A i \in DOMAIN x.v : x.v[i][2].t = "str"

\* C3 as stated: a mapping text that parses to anything but a flat str-to-str
\* mapping ends the call in an error, and CroissantBuilder is not called.
C3_OnlyFlatStringMappingsAccepted ==
  (MappingTextParses /\ ~IsFlatStrDict(JsonLoads(call.mapping.v).val)) =>
    /\ ctor_calls = 0
    /\ Ended => pc = "raised"

\* C3 amended: the adapter checks that a mapping text parses, not its shape.
\* A text that parses, to whatever shape, raises no error of the adapter and
\* CroissantBuilder is called once with the parsed value; the adapter's own
\* error occurs only for a text that does not parse.
C3_ParsedTextOfAnyShapeIsForwarded ==
  /\ MappingTextParses =>
       /\ ~AdapterRaised
       /\ ctor_calls > 0 => PyEq(ctor_args.mapping, JsonLoads(call.mapping.v).val)
       /\ Ended => ctor_calls = 1
  /\ AdapterRaised => (MappingTextGiven /\ ~MappingTextParses)

C3_Witness ==
  /\ Called
  /\ call.mapping = PyStr(<<"[", "1", "]">>)
  /\ ctor_calls = 1
  /\ ctor_args.mapping.t = "list"

\* Sequences of <<key, value>> with distinct keys: the members of a flat mapping.
FlatPairSeqs ==
  {ps \in SeqsUpTo(StrValues \X StrValues, MaxPairs) :
     \A i, j \in DOMAIN ps : ps[i][1] = ps[j][1] => i = j}

\* The JSON text of the flat mapping with members ps.
EncodeFlat(ps) ==
  EncodeObject([i \in DOMAIN ps |-> <<ps[i][1], <<Quote(ps[i][2])>> >>])

\* x is a dict with exactly the members ps: same keys, same values.
IsMappingOf(x, ps) ==
  /\ x.t = "dict"
  /\ Len(x.v) = Len(ps)
  /\ \A i \in DOMAIN ps :
       \E j \in DOMAIN x.v :
         /\ x.v[j][1] = ps[i][1]
         /\ x.v[j][2].t = "str"
         /\ x.v[j][2].v = <<ps[i][2]>>

\* C4: a mapping text that is the JSON encoding of a flat str-to-str mapping M
\* raises no parse error, and CroissantBuilder is called with exactly M.
C4_FlatMappingPassedExactly ==
  \A ps \in FlatPairSeqs :
    (Called /\ call.mapping = PyStr(EncodeFlat(ps))) =>
      /\ ~AdapterRaised
      /\ ctor_calls > 0 => IsMappingOf(ctor_args.mapping, ps)
      /\ Ended => ctor_calls = 1

C4_Witness ==
  /\ Called
  /\ call.mapping = PyStr(<<"{", "\"a.csv\"", ":", "\"/home/u/a.csv\"", "}">>)
  /\ ctor_calls = 1
  /\ ctor_args.mapping = PyDict(<< <<"a.csv", PyStr(<<"/home/u/a.csv">>)>> >>)

\* The steps of prepare_croissant_builder, in the order of its lines.
AdapterSteps ==
  <<"normalise_record_sets", "parse_mapping", "CroissantBuilder",
    "download_and_prepare", "return">>

\* The steps of the run made inside prepare_croissant_builder.
IsAdapterStep(step) == step \notin {"parse_args", "subparser_fn"}
StepsTaken == SelectSeq(trace, IsAdapterStep)

IsPrefix(a, b) == Len(a) <= Len(b) /\ a = SubSeq(b, 1, Len(a))

\* C5 as stated: a run whose mapping passes validation (no mapping, or a text
\* that parses) calls CroissantBuilder exactly once and then
\* download_and_prepare exactly once.
C5_ConstructedOncePreparedOnce ==
  (Called /\ Ended /\ (call.mapping = None_ \/ MappingTextParses)) =>
    /\ ctor_calls = 1
    /\ prepare_calls = 1

\* C5 amended: a run that passes mapping validation calls CroissantBuilder
\* exactly once, after record_sets and mapping are normalised, and, when the
\* construction returns, download_and_prepare exactly once after it; when the
\* construction raises, download_and_prepare is not called.  No step is taken
\* twice or out of order; record_sets=[] and mapping=None give
\* record_set_ids=None and mapping=None.
C5_LinearValidateThenDelegate ==
  /\ IsPrefix(StepsTaken, AdapterSteps)
  /\ ctor_calls <= 1
  /\ prepare_calls <= 1
  /\ prepare_calls = 1 => (ctor_calls = 1 /\ builder # None_)
  /\ (Called /\ Ended /\ ~AdapterRaised) =>
       /\ ctor_calls = 1
       /\ builder # None_ => prepare_calls = 1
       /\ builder = None_ => (prepare_calls = 0 /\ pc = "raised")
  /\ (Called /\ ctor_calls = 1 /\ call.record_sets = PyList(<<>>)
        /\ call.mapping = None_) =>
       /\ ctor_args.record_set_ids = None_
       /\ ctor_args.mapping = None_

C5_Witness ==
  /\ pc = "returned"
  /\ call.record_sets = PyList(<<>>)
  /\ call.mapping = None_
  /\ ctor_args.record_set_ids = None_
  /\ ctor_args.mapping = None_
  /\ ctor_calls = 1
  /\ prepare_calls = 1

\* C6: an error raised by CroissantBuilder(...) or by download_and_prepare ends
\* the call as that same error: not wrapped, not suppressed, and the failed
\* step is not made again.
C6_CollaboratorErrorsPropagateUnchanged ==
  collab_raised # None_ =>
    /\ pc = "raised"
    /\ exc = collab_raised
    /\ ctor_calls = 1
    /\ prepare_calls <= 1
    /\ trace[Len(trace)] \in {"CroissantBuilder", "download_and_prepare"}

C6_Witness ==
  /\ collab_raised # None_
  /\ collab_raised.type = "JSONDecodeError"
  /\ trace[Len(trace)] = "download_and_prepare"
  /\ exc = collab_raised
  /\ pc = "raised"

\* C7: a command line whose --file_format is not a FileFormat value is
\* rejected by argument parsing; prepare_croissant_builder is never called.
C7_UnsupportedFormatRejected ==
  (FromCommandLine /\ argv.file_format # None_
     /\ \A f \in FileFormat : argv.file_format # PyStr(<<f>>)) =>
    /\ ~Called
    /\ ctor_calls = 0
    /\ pc \in {"argv", "exit"}
    /\ pc = "exit" => exc.t = "SystemExit"

C7_Witness ==
  /\ FromCommandLine
  /\ argv.file_format = PyStr(<<"csv">>)
  /\ argv.jsonld # None_
  /\ argv.out_dir # None_
  /\ pc = "exit"

RequiredFlagMissing ==
  argv.jsonld = None_ \/ argv.out_dir = None_ \/ argv.file_format = None_

\* C8: a command line without --jsonld, --out_dir or --file_format fails in
\* argument parsing before the handler runs, so the handler always passes a
\* jsonld and an out_dir; a missing --record_sets or --mapping is no failure.
C8_RequiredFlagsEnforced ==
  FromCommandLine =>
    /\ RequiredFlagMissing => (~Called /\ pc \in {"argv", "exit"})
    /\ Called => (call.jsonld # None_ /\ call.out_dir # None_
                    /\ call.out_file_format # None_)
    /\ pc = "exit" =>
         (RequiredFlagMissing \/ argv.file_format \notin FileFormatChoices)

C8_Witness ==
  /\ FromCommandLine
  /\ Called
  /\ argv.record_sets = None_
  /\ argv.mapping = None_
  /\ call.jsonld = argv.jsonld
  /\ call.out_dir # None_

\* The text of the data_dir the collaborator is given.
DataDirText(d) == IF d.t = "path" THEN PathStr(d) ELSE d

IsNormalPathText(s) ==
  /\ s # <<>>
  /\ \A i \in DOMAIN s :
       s[i] = "/" =>
         /\ (i > 1 /\ s[i - 1] = "/") => (i = 2 /\ (Len(s) < 3 \/ s[3] # "/"))
         /\ i = Len(s) => \A j \in DOMAIN s : s[j] = "/"
  /\ Len(s) <= 2 \/ \E i \in DOMAIN s : s[i] # "/"
  /\ \A i \in DOMAIN s :
       s[i] = "." =>
         \/ s = <<".">>
         \/ (i > 1 /\ s[i - 1] # "/")
         \/ (i < Len(s) /\ s[i + 1] # "/")

C10_NoRawTextReachesCollaborator ==
  (Called /\ ctor_calls > 0) =>
    \/ (call.mapping = None_ /\ ctor_args.mapping = None_)
    \/ /\ MappingTextParses
       /\ PyEq(ctor_args.mapping, JsonLoads(call.mapping.v).val)

====
